---- MODULE Spec2Model ----
(***************************************************************************)
(* Model of pkg/workloads/cortex/onnx_serve/api.py: the ONNX serving       *)
(* process (start), its process-wide cache (local_cache) and the request   *)
(* handlers (predict, health) with the helpers predict calls               *)
(* (prediction_failed, convert_to_onnx_input, transform_to_numpy).         *)
(*                                                                         *)
(* Python values are records tagged by field k:                            *)
(*   None/null, int, str, bool, list, dict (an ordered sequence of         *)
(*   key/value pairs, as Python dicts keep insertion order) and            *)
(*   numpy.ndarray (shape + flat row-major data).                          *)
(***************************************************************************)
EXTENDS Integers, Sequences, FiniteSets, TLC

VARIABLES
    startpc,      \* position of start(): "init", "context", "session", "serving"
    local_cache,  \* the module-level dict local_cache
    pc,           \* pc[r]: position of request r inside predict
    body,         \* body[r]: the HTTP body of request r as received
    locals,       \* locals[r]: predict's local variables
    response,     \* response[r]: the (body, status) predict returned
    unhandled,    \* unhandled[r]: exception type that escaped predict, or "none"
    calls,        \* calls[r]: hook, dispatch and engine invocations made for request r
    health_resp   \* what the last GET /healthz returned

vars == <<startpc, local_cache, pc, body, locals, response, unhandled, calls, health_resp>>

-----------------------------------------------------------------------------
(* Bounds of the model *)

\* longest `samples` list a request carries
MaxSamples == 2

\* request slots (waitress worker threads) of the model
Reqs == {1, 2}

-----------------------------------------------------------------------------
(* Python / JSON values *)

Null == [k |-> "null"]
Num(n) == [k |-> "num", v |-> n]
Str(s) == [k |-> "str", v |-> s]
Bool(b) == [k |-> "bool", v |-> b]
List(s) == [k |-> "list", v |-> s]
Obj(pairs) == [k |-> "obj", v |-> pairs]
KV(key, val) == [key |-> key, val |-> val]
NdArray(shape, data) == [k |-> "nd", shape |-> shape, v |-> data]
Text(s) == [k |-> "text", v |-> s]

\* util.is_dict / util.is_list (isinstance checks)
is_dict(x) == x.k = "obj"
is_list(x) == x.k = "list"

\* `key in d`
HasKey(d, key) == \E j \in 1..Len(d.v) : d.v[j].key = key

\* d.get(key): the value stored under key, None when the key is absent
Get(d, key) ==
    IF HasKey(d, key)
    THEN d.v[CHOOSE j \in 1..Len(d.v) : d.v[j].key = key].val
    ELSE Null

\* type(x).__name__ as Python prints it in an AttributeError/TypeError
TypeName(x) ==
    CASE x.k = "null" -> "NoneType"
      [] x.k = "num"  -> "int"
      [] x.k = "str"  -> "str"
      [] x.k = "bool" -> "bool"
      [] x.k = "list" -> "list"
      [] x.k = "obj"  -> "dict"
      [] x.k = "nd"   -> "numpy.ndarray"

\* a raised exception / a returned value
Raise(exc, msg) == [ok |-> FALSE, exc |-> exc, msg |-> msg]
Return(val) == [ok |-> TRUE, val |-> val]

RECURSIVE Serializable(_)
\* json.dumps raises TypeError on anything that is not a JSON value
Serializable(x) ==
    CASE x.k \in {"null", "num", "str", "bool"} -> TRUE
      [] x.k = "list" -> \A j \in 1..Len(x.v) : Serializable(x.v[j])
      [] x.k = "obj"  -> \A j \in 1..Len(x.v) : Serializable(x.v[j].val)
      [] OTHER -> FALSE

RECURSIVE Dumps(_), DumpsItems(_), DumpsPairs(_)
\* json.dumps(x) with the default separators (", " and ": ")
Dumps(x) ==
    CASE x.k = "null" -> "null"
      [] x.k = "num"  -> ToString(x.v)
      [] x.k = "str"  -> "\"" \o x.v \o "\""
      [] x.k = "bool" -> IF x.v THEN "true" ELSE "false"
      [] x.k = "list" -> "[" \o DumpsItems(x.v) \o "]"
      [] x.k = "obj"  -> "{" \o DumpsPairs(x.v) \o "}"

DumpsItems(s) ==
    IF Len(s) = 0 THEN ""
    ELSE IF Len(s) = 1 THEN Dumps(s[1])
    ELSE Dumps(s[1]) \o ", " \o DumpsItems(Tail(s))

DumpsPairs(s) ==
    IF Len(s) = 0 THEN ""
    ELSE IF Len(s) = 1 THEN "\"" \o s[1].key \o "\": " \o Dumps(s[1].val)
    ELSE "\"" \o s[1].key \o "\": " \o Dumps(s[1].val) \o ", " \o DumpsPairs(Tail(s))

-----------------------------------------------------------------------------
(* numpy *)

\* an unknown dimension of a declared shape (Python None)
NoneDim == -1

\* NpShape's answer for a ragged nested list
Ragged == <<-2>>

RECURSIVE Prod(_)
Prod(shape) == IF Len(shape) = 0 THEN 1 ELSE shape[1] * Prod(Tail(shape))

RECURSIVE NpShape(_)
\* the shape np.array discovers in a nested list
NpShape(x) ==
    IF x.k # "list" THEN <<>>
    ELSE IF Len(x.v) = 0 THEN <<0>>
    ELSE LET s1 == NpShape(x.v[1])
         IN  IF s1 = Ragged \/ \E j \in 1..Len(x.v) : NpShape(x.v[j]) # s1
             THEN Ragged
             ELSE <<Len(x.v)>> \o s1

RECURSIVE Leaves(_), LeavesOf(_)
\* the scalars of a nested list in row-major order
Leaves(x) == IF x.k # "list" THEN <<x>> ELSE LeavesOf(x.v)
LeavesOf(s) == IF Len(s) = 0 THEN <<>> ELSE Leaves(s[1]) \o LeavesOf(Tail(s))

\* the integer literals int() accepts among the strings of the model
IsIntLiteral(s) == \E n \in -9..9 : ToString(n) = s
IntLiteral(s) == CHOOSE n \in -9..9 : ToString(n) = s

\* a scalar converts to an integer dtype: int, bool and numeric str do
LeafOk(x) == x.k \in {"num", "bool"} \/ (x.k = "str" /\ IsIntLiteral(x.v))
LeafInt(x) ==
    CASE x.k = "num"  -> x.v
      [] x.k = "bool" -> IF x.v THEN 1 ELSE 0
      [] x.k = "str"  -> IntLiteral(x.v)

\* np.array(pyobj, dtype=<integer dtype>)
np_array(pyobj, dtype) ==
    LET shape == NpShape(pyobj)
        leaves == Leaves(pyobj)
    IN  IF shape = Ragged
        THEN Raise("ValueError", "setting an array element with a sequence.")
        ELSE IF \E j \in 1..Len(leaves) : ~LeafOk(leaves[j])
        THEN LET bad == leaves[CHOOSE j \in 1..Len(leaves) : ~LeafOk(leaves[j])]
             IN  IF bad.k = "str"
                 THEN Raise("ValueError", "invalid literal for int() with base 10: '" \o bad.v \o "'")
                 ELSE Raise("TypeError", "int() argument must be a string, a bytes-like object or a number, not '"
                                          \o TypeName(bad) \o "'")
        ELSE Return(NdArray(shape, [j \in 1..Len(leaves) |-> LeafInt(leaves[j])]))

RECURSIVE ShapeItems(_)
ShapeItems(shape) ==
    IF Len(shape) = 0 THEN ""
    ELSE IF Len(shape) = 1 THEN ToString(shape[1])
    ELSE ToString(shape[1]) \o "," \o ShapeItems(Tail(shape))

\* a reshape that keeps the leading elements of a larger array (np.resize)
reshape_truncating(arr, target_shape) ==
    IF Prod(target_shape) <= Len(arr.v)
    THEN Return(NdArray(target_shape, SubSeq(arr.v, 1, Prod(target_shape))))
    ELSE Raise("ValueError", "cannot reshape array of size " \o ToString(Len(arr.v))
                              \o " into shape (" \o ShapeItems(target_shape) \o ")")

\* ndarray.reshape(target_shape)
reshape(arr, target_shape) ==
    IF Prod(target_shape) = Len(arr.v)
    THEN Return(NdArray(target_shape, arr.v))
    ELSE Raise("ValueError", "cannot reshape array of size " \o ToString(Len(arr.v))
                              \o " into shape (" \o ShapeItems(target_shape) \o ")")

\* ndarray.reshape(shape) where the shape may hold -1 (written NoneDim here)
\* for a dimension to be inferred from the array's size
reshape_inferring(arr, shape) ==
    LET unknown == {idx \in 1..Len(shape) : shape[idx] = NoneDim}
        known == Prod(SelectSeq(shape, LAMBDA dim : dim # NoneDim))
        size == Len(arr.v)
    IN  IF unknown = {} THEN reshape(arr, shape)
        ELSE IF Cardinality(unknown) > 1
        THEN Raise("ValueError", "can only specify one unknown dimension")
        ELSE IF known = 0 \/ size % known # 0
        THEN Raise("ValueError", "cannot reshape array of size " \o ToString(size)
                                  \o " into shape (" \o ShapeItems(shape) \o ")")
        ELSE Return(NdArray([idx \in 1..Len(shape) |->
                                IF idx \in unknown THEN size \div known ELSE shape[idx]],
                            arr.v))

RECURSIVE Nest(_, _)
\* ndarray.tolist(): the nested-list form of flat data under a shape
Nest(shape, data) ==
    IF Len(shape) = 0 THEN Num(data[1])
    ELSE LET n == shape[1]
             w == Prod(Tail(shape))
         IN  List([j \in 1..n |-> Nest(Tail(shape), SubSeq(data, (j - 1) * w + 1, j * w))])

tolist(arr) == Nest(arr.shape, arr.v)

-----------------------------------------------------------------------------
(* transform_to_numpy and convert_to_onnx_input *)

\* the module-level table onnx_to_np
onnx_to_np ==
    [t \in {"tensor(float16)", "tensor(float)", "tensor(double)", "tensor(int32)",
            "tensor(int8)", "tensor(uint8)", "tensor(int16)", "tensor(uint16)",
            "tensor(int64)", "tensor(uint64)", "tensor(bool)", "tensor(string)"} |->
        CASE t = "tensor(float16)" -> "float16"
          [] t = "tensor(float)"   -> "float32"
          [] t = "tensor(double)"  -> "float64"
          [] t = "tensor(int32)"   -> "int32"
          [] t = "tensor(int8)"    -> "int8"
          [] t = "tensor(uint8)"   -> "uint8"
          [] t = "tensor(int16)"   -> "int16"
          [] t = "tensor(uint16)"  -> "uint16"
          [] t = "tensor(int64)"   -> "int64"
          [] t = "tensor(uint64)"  -> "uint64"
          [] t = "tensor(bool)"    -> "bool"
          [] t = "tensor(string)"  -> "string"]

\* a resolution that drops the unknown dimensions instead of setting them to 1
ResolvedShape_dropping(shape) ==
    SelectSeq(shape, LAMBDA dim : dim # NoneDim)

\* the loop of transform_to_numpy over target_shape: every None becomes 1
ResolvedShape(shape) ==
    [idx \in 1..Len(shape) |-> IF shape[idx] = NoneDim THEN 1 ELSE shape[idx]]

\* transform_to_numpy's return value (or the exception it raises)
transform_to_numpy(input_pyobj, input_metadata) ==
    IF input_metadata.type \notin DOMAIN onnx_to_np
    THEN Raise("KeyError", "'" \o input_metadata.type \o "'")
    ELSE LET target_dtype == onnx_to_np[input_metadata.type]
             target_shape == ResolvedShape(input_metadata.shape)
             np_arr == IF input_pyobj.k # "nd"
                       THEN np_array(input_pyobj, target_dtype)
                       ELSE Return(input_pyobj)
         IN  IF np_arr.ok THEN reshape(np_arr.val, target_shape) ELSE np_arr

\* transform_to_numpy's effect on the descriptor it was handed: target_shape is
\* the descriptor's own shape list, so the loop's assignments land in it
transform_to_numpy_effect(input_metadata) ==
    IF input_metadata.type \notin DOMAIN onnx_to_np
    THEN input_metadata
    ELSE [input_metadata EXCEPT !.shape = ResolvedShape(input_metadata.shape)]

\* the attributes a value offers for a method call: none of the values built
\* from JSON, nor an ndarray, has a method is_dict
HasMethod(x, name) == name \in {"get"} /\ x.k = "obj"

\* what sample.is_dict(input_metadata) would answer on a value that had such a
\* method; HasMethod says no value does, so the call raises before it answers
is_dict_method(x, arg) == is_dict(x)

RECURSIVE JoinNames(_)
\* ", ".join(metadata.name for metadata in input_metadata_list)
JoinNames(input_metadata_list) ==
    IF Len(input_metadata_list) = 0 THEN ""
    ELSE IF Len(input_metadata_list) = 1 THEN input_metadata_list[1].name
    ELSE input_metadata_list[1].name \o ", " \o JoinNames(Tail(input_metadata_list))

RECURSIVE convert_multi(_, _, _, _)
\* the for loop of convert_to_onnx_input's else branch, from descriptor idx on
convert_multi(sample, input_metadata_list, idx, input_dict) ==
    IF idx > Len(input_metadata_list) THEN Return(Obj(input_dict))
    ELSE LET input_metadata == input_metadata_list[idx]
         IN  IF ~HasMethod(sample, "is_dict")
             THEN Raise("AttributeError",
                        "'" \o TypeName(sample) \o "' object has no attribute 'is_dict'")
             ELSE IF ~is_dict_method(sample, input_metadata)
             THEN Raise("ValueError",
                        "sample should be a dict containing keys: "
                            \o JoinNames(input_metadata_list))
             ELSE IF Get(sample, input_metadata.name) = Null
             THEN Raise("ValueError",
                        "sample should be a dict containing key: " \o input_metadata.name)
             ELSE LET t == transform_to_numpy(sample, input_metadata)
                  IN  IF t.ok
                      THEN convert_multi(sample, input_metadata_list, idx + 1,
                                         Append(input_dict, KV(input_metadata.name, t.val)))
                      ELSE t

\* convert_to_onnx_input with the entry of a bare sample stored under the
\* descriptor's type instead of its name
convert_to_onnx_input_keyed_by_type(sample, input_metadata_list) ==
    IF Len(input_metadata_list) = 1
    THEN LET input_metadata == input_metadata_list[1]
         IN  IF is_dict(sample)
             THEN IF Get(sample, input_metadata.name) = Null
                  THEN Raise("ValueError",
                             "sample should be a dict containing key: " \o input_metadata.name)
                  ELSE LET t == transform_to_numpy(Get(sample, input_metadata.name),
                                                   input_metadata)
                       IN  IF t.ok THEN Return(Obj(<<KV(input_metadata.name, t.val)>>)) ELSE t
             ELSE LET t == transform_to_numpy(sample, input_metadata)
                  IN  IF t.ok THEN Return(Obj(<<KV(input_metadata.type, t.val)>>)) ELSE t
    ELSE convert_multi(sample, input_metadata_list, 1, <<>>)

\* convert_to_onnx_input's return value (a dict name -> ndarray) or exception
convert_to_onnx_input(sample, input_metadata_list) ==
    IF Len(input_metadata_list) = 1
    THEN LET input_metadata == input_metadata_list[1]
         IN  IF is_dict(sample)
             THEN IF Get(sample, input_metadata.name) = Null
                  THEN Raise("ValueError",
                             "sample should be a dict containing key: " \o input_metadata.name)
                  ELSE LET t == transform_to_numpy(Get(sample, input_metadata.name),
                                                   input_metadata)
                       IN  IF t.ok THEN Return(Obj(<<KV(input_metadata.name, t.val)>>)) ELSE t
             ELSE LET t == transform_to_numpy(sample, input_metadata)
                  IN  IF t.ok THEN Return(Obj(<<KV(input_metadata.name, t.val)>>)) ELSE t
    ELSE convert_multi(sample, input_metadata_list, 1, <<>>)

\* the descriptors convert_to_onnx_input hands to transform_to_numpy
convert_touched(sample, input_metadata_list) ==
    IF Len(input_metadata_list) = 1
    THEN IF is_dict(sample) /\ Get(sample, input_metadata_list[1].name) = Null
         THEN {}
         ELSE {1}
    ELSE IF ~HasMethod(sample, "is_dict") THEN {}
         ELSE {idx \in 1..Len(input_metadata_list) :
                 \A j \in 1..idx : HasKey(sample, input_metadata_list[j].name)
                                   /\ Get(sample, input_metadata_list[j].name) # Null}

\* the descriptor list after convert_to_onnx_input ran on sample
convert_effect(sample, input_metadata_list) ==
    [idx \in 1..Len(input_metadata_list) |->
        IF idx \in convert_touched(sample, input_metadata_list)
        THEN transform_to_numpy_effect(input_metadata_list[idx])
        ELSE input_metadata_list[idx]]

\* prediction_failed's message
prediction_failed_message(sample, reason) ==
    LET message == "prediction failed for sample: " \o Dumps(sample)
    IN  IF reason # "" THEN message \o " (" \o reason \o ")" ELSE message

-----------------------------------------------------------------------------
(* What start() can load: the API record, the model and the user's handler *)

\* ctx.apis_id_map[args.api]
Apis == {[id |-> "api-id-1", name |-> "myapi", request_handler_impl_key |-> h] :
            h \in BOOLEAN}

\* sess.get_inputs() of the models served: one input x of shape [None, 2], or
\* two inputs x of shape [None, 2] and y of shape [1]
SingleInput == <<[name |-> "x", type |-> "tensor(int64)", shape |-> <<NoneDim, 2>>]>>
MultiInput ==
    <<[name |-> "x", type |-> "tensor(int64)", shape |-> <<NoneDim, 2>>],
      [name |-> "y", type |-> "tensor(int64)", shape |-> <<1>>]>>
Models == {SingleInput, MultiInput}

\* the engines: "identity" returns every input tensor and refuses a tensor that
\* starts with a negative number; "labels" returns the first input tensor and
\* a non-array output (a list of dicts)
Engines == {"identity", "labels"}

\* input_metadata.shape (line 79) on the descriptor objects of the session: the
\* attribute hands out the list the descriptor stores ("stored"), or builds a
\* new list on every access ("computed"). The descriptor class belongs to the
\* inference library, and transform_to_numpy reads the attribute without
\* copying what it gets, so both kinds are served
ShapeAttrs == {"stored", "computed"}

\* sess.get_outputs()
OutputsOf(engine, inputs) ==
    IF engine = "labels"
    THEN <<[name |-> "out", type |-> inputs[1].type, shape |-> inputs[1].shape],
           [name |-> "labels", type |-> "seq(map(string,tensor(int64)))", shape |-> <<>>]>>
    ELSE inputs

\* the user's request handlers: each hook is absent or one of a few functions.
\* A pre-inference hook may hand back an ndarray: transform_to_numpy's test
\* `type(input_pyobj) is not np.ndarray` exists for that case, as decoded JSON
\* never holds one
PreHooks == {"absent", "wrap", "ndarray", "validate", "reshape"}
PostHooks == {"absent", "first", "validate"}
HookPairs ==
    {<<a, "absent">> : a \in PreHooks} \cup {<<"absent", b>> : b \in PostHooks}
        \cup {<<"wrap", "first">>, <<"validate", "validate">>}
Handlers == {[k |-> "module", pre |-> hp[1], post |-> hp[2]] : hp \in HookPairs}

\* util.has_function(request_handler, name)
has_function(request_handler, name) ==
    IF name = "pre_inference" THEN request_handler.pre # "absent"
    ELSE request_handler.post # "absent"

\* a value whose first scalar is a negative number
StartsNegative(x) ==
    LET l == IF x.k = "nd" THEN [j \in 1..Len(x.v) |-> Num(x.v[j])] ELSE Leaves(x)
    IN  Len(l) > 0 /\ l[1].k = "num" /\ l[1].v < 0

\* request_handler.pre_inference(sample, input_metadata):
\*   wrap      returns {<first input's name>: sample}
\*   ndarray   returns np.array(sample, dtype="int64")
\*   validate  asserts that the sample does not start with a negative number
\*   reshape   returns np.array(sample, dtype="int64").reshape(
\*                 [-1 if dim is None else dim for dim in input_metadata[0].shape])
pre_inference(request_handler, sample, input_metadata) ==
    CASE request_handler.pre = "wrap" ->
            Return(Obj(<<KV(input_metadata[1].name, sample)>>))
      [] request_handler.pre = "ndarray" -> np_array(sample, "int64")
      [] request_handler.pre = "validate" ->
            IF StartsNegative(sample) THEN Raise("AssertionError", "") ELSE Return(sample)
      [] request_handler.pre = "reshape" ->
            LET np_arr == np_array(sample, "int64")
            IN  IF np_arr.ok
                THEN reshape_inferring(np_arr.val, input_metadata[1].shape)
                ELSE np_arr

\* request_handler.post_inference(result, output_metadata):
\*   first     returns result[0]
\*   validate  raises when the first output starts with a negative number
post_inference(request_handler, result, output_metadata) ==
    CASE request_handler.post = "first" ->
            IF Len(result.v) = 0
            THEN Raise("IndexError", "list index out of range")
            ELSE Return(result.v[1])
      [] request_handler.post = "validate" ->
            IF Len(result.v) > 0 /\ StartsNegative(result.v[1])
            THEN Raise("Exception", "negative output")
            ELSE Return(result)

\* sess.run([], inference_input): the list of the model's outputs
sess_run(sess, inference_input) ==
    LET inputs == inference_input.v
        tensors == [j \in 1..Len(inputs) |-> inputs[j].val]
    IN  CASE sess.engine = "labels" ->
                Return(List(<<tensors[1], List(<<Obj(<<KV("a", Num(1))>>)>>)>>))
          [] sess.engine = "identity" ->
                IF \E j \in 1..Len(tensors) : StartsNegative(tensors[j])
                THEN Raise("RuntimeError", "engine rejected the input")
                ELSE Return(List(tensors))

\* a marshal that hands back the lone output of a single-output model unwrapped
marshal_unwrapping(model_outputs) ==
    LET converted == [j \in 1..Len(model_outputs.v) |->
                        IF model_outputs.v[j].k = "nd"
                        THEN tolist(model_outputs.v[j])
                        ELSE model_outputs.v[j]]
    IN  IF Len(converted) = 1 /\ converted[1].k = "list"
        THEN converted[1]
        ELSE List(converted)

\* lines 162-167 of predict: ndarray outputs become lists, the rest pass through
marshal(model_outputs) ==
    List([j \in 1..Len(model_outputs.v) |->
            IF model_outputs.v[j].k = "nd"
            THEN tolist(model_outputs.v[j])
            ELSE model_outputs.v[j]])

-----------------------------------------------------------------------------
(* The requests a client sends *)

Samples ==
    { List(<<Num(1), Num(2)>>),
      List(<<Num(-1), Num(2)>>),
      List(<<Num(1), Num(2), Num(3), Num(4)>>),
      Obj(<<KV("x", List(<<Num(1), Num(2)>>))>>),
      Obj(<<KV("x", Null)>>),
      Obj(<<KV("y", List(<<Num(3)>>))>>),
      Obj(<<KV("x", List(<<Num(1), Num(2)>>)), KV("y", List(<<Num(3)>>))>>) }

SampleLists == UNION {[1..n -> Samples] : n \in 0..MaxSamples}

\* decoded bodies that fail the top-level validation
BadPayloads ==
    { Null, Num(5), List(<<>>), Obj(<<>>),
      Obj(<<KV("samples", Num(3))>>),
      Obj(<<KV("samples", Str("ab"))>>),
      Obj(<<KV("samples", Bool(TRUE))>>),
      Obj(<<KV("samples", Null)>>),
      Obj(<<KV("samples", Obj(<<KV("x", Num(1))>>))>>) }

\* an HTTP body: unparsable text, or the text of a JSON value
Bodies ==
    {[malformed |-> TRUE, json |-> Null]}
      \cup {[malformed |-> FALSE, json |-> p] : p \in BadPayloads}
      \cup {[malformed |-> FALSE, json |-> Obj(<<KV("samples", List(l))>>)] : l \in SampleLists}

\* get_json with the parser's failure swallowed (as get_json(silent=True) does)
get_json_silent(b) == Return(b.json)

\* request.get_json(): the decoded body, or the parser's exception
get_json(b) ==
    IF b.malformed THEN Raise("BadRequest", "Failed to decode JSON object") ELSE Return(b.json)

-----------------------------------------------------------------------------
(* State *)

\* the module-level dict as the interpreter builds it at import
EmptyCache ==
    [ctx |-> Null, api |-> Null, sess |-> Null, input_metadata |-> Null,
     output_metadata |-> Null, request_handler |-> Null]

\* predict's locals before any of them is assigned
NoLocals ==
    [bound |-> FALSE, payload |-> Null, samples |-> Null, i |-> 0, sample |-> Null,
     inference_input |-> Null, model_outputs |-> Null, result |-> Null,
     prediction |-> Null, predictions |-> Null, e |-> Null]

NoResponse == [status |-> 0, body |-> Null]

\* no request in the slot
NoBody == [malformed |-> FALSE, json |-> Null]

Init ==
    /\ startpc = "init"
    /\ local_cache = EmptyCache
    /\ pc = [r \in Reqs |-> "idle"]
    /\ body = [r \in Reqs |-> NoBody]
    /\ locals = [r \in Reqs |-> NoLocals]
    /\ response = [r \in Reqs |-> NoResponse]
    /\ unhandled = [r \in Reqs |-> "none"]
    /\ calls = [r \in Reqs |-> <<>>]
    /\ health_resp = NoResponse

reqvars == <<pc, body, locals, response, unhandled, calls>>

-----------------------------------------------------------------------------
(* start() *)

\* lines 196-203: the context and the API record, and the request handler when
\* the API names one
StartContext ==
    /\ startpc = "init"
    /\ \E api \in Apis :
         IF api.request_handler_impl_key
         THEN \E h \in Handlers :
                local_cache' = [local_cache EXCEPT !.api = api, !.ctx = Str("ctx"),
                                                   !.request_handler = h]
         ELSE local_cache' = [local_cache EXCEPT !.api = api, !.ctx = Str("ctx")]
    /\ startpc' = "context"
    /\ UNCHANGED <<reqvars, health_resp>>

\* lines 205-212: the inference session and the descriptors it reports. The
\* session keeps the inputs its model file declares (graph_inputs) and the way
\* its descriptors answer .shape (shape_attr)
StartSession ==
    /\ startpc = "context"
    /\ \E m \in Models, e \in Engines, a \in ShapeAttrs :
         local_cache' = [local_cache EXCEPT
                            !.sess = [k |-> "sess", engine |-> e,
                                      graph_inputs |-> m, shape_attr |-> a],
                            !.input_metadata = List(m),
                            !.output_metadata = List(OutputsOf(e, m))]
    /\ startpc' = "session"
    /\ UNCHANGED <<reqvars, health_resp>>

\* a start() that starts the listener before the session is loaded
Serve_before_session ==
    /\ startpc \in {"context", "session"}
    /\ startpc' = "serving"
    /\ UNCHANGED <<local_cache, reqvars, health_resp>>

\* line 214: serve(app, ...) starts the listener
Serve ==
    /\ startpc = "session"
    /\ startpc' = "serving"
    /\ UNCHANGED <<local_cache, reqvars, health_resp>>

-----------------------------------------------------------------------------
(* health() *)

\* a health() that answers from the state of the predict requests
health_reporting_failures ==
    /\ startpc = "serving"
    /\ health_resp' =
         [status |-> IF \E r \in Reqs : pc[r] = "done" /\ response[r].status # 200
                     THEN 500 ELSE 200,
          body |-> Obj(<<KV("ok", Bool(\A r \in Reqs : pc[r] = "done" => response[r].status = 200))>>)]
    /\ UNCHANGED <<startpc, local_cache, reqvars>>

health ==
    /\ startpc = "serving"
    /\ health_resp' = [status |-> 200, body |-> Obj(<<KV("ok", Bool(TRUE))>>)]
    /\ UNCHANGED <<startpc, local_cache, reqvars>>

-----------------------------------------------------------------------------
(* predict() *)

\* the reasons predict gives for a rejected payload (the source writes the key
\* name between backquotes, which a TLA+ string cannot hold)
REASON_NO_SAMPLES == "top level 'samples' key not found in request"
REASON_NOT_A_LIST == "expected the value of key 'samples' to be a list of json objects"

\* prediction_failed(sample, reason) returned from predict; json.dumps raises
\* TypeError on a sample that is not a JSON value, and nothing catches it
prediction_failed(r, sample, reason) ==
    /\ pc' = [pc EXCEPT ![r] = "done"]
    /\ IF Serializable(sample)
       THEN /\ response' = [response EXCEPT ![r] =
                               [status |-> 406,
                                body |-> Text(prediction_failed_message(sample, reason))]]
            /\ UNCHANGED unhandled
       ELSE /\ unhandled' = [unhandled EXCEPT ![r] = "TypeError"]
            /\ UNCHANGED response

\* lines 181-185: the handler of an exception raised inside the per-sample try;
\* `sample` is whatever the name is bound to when the exception arrives
except_Exception(r, sample, e) ==
    /\ locals' = [locals EXCEPT ![r].e = [k |-> "exc", exc |-> e.exc, msg |-> e.msg]]
    /\ prediction_failed(r, sample, e.msg)

\* lines 124-127: a request arrives and its body is decoded
GetJson(r) ==
    /\ startpc = "serving"
    /\ pc[r] = "idle"
    /\ \E b \in Bodies :
         LET got == get_json(b)
         IN  /\ body' = [body EXCEPT ![r] = b]
             /\ IF got.ok
                THEN /\ locals' = [locals EXCEPT ![r].payload = got.val]
                     /\ pc' = [pc EXCEPT ![r] = "validate"]
                     /\ UNCHANGED response
                ELSE /\ pc' = [pc EXCEPT ![r] = "done"]
                     /\ response' = [response EXCEPT ![r] =
                                        [status |-> 400, body |-> Text("Malformed JSON")]]
                     /\ UNCHANGED locals
    /\ UNCHANGED <<startpc, local_cache, unhandled, calls, health_resp>>

\* lines 129-149: the cache entries are bound to locals and the payload's top
\* level is validated; line 141 takes len(payload["samples"]) before line 145
\* checks that it is a list
Validate(r) ==
    /\ pc[r] = "validate"
    /\ LET payload == locals[r].payload
           samples == Get(payload, "samples")
           bound == [locals[r] EXCEPT !.bound = TRUE]
       IN  IF ~is_dict(payload) \/ ~HasKey(payload, "samples")
           THEN /\ prediction_failed(r, payload, REASON_NO_SAMPLES)
                /\ locals' = [locals EXCEPT ![r] = bound]
           ELSE IF samples.k \notin {"list", "obj", "str"}
           THEN /\ pc' = [pc EXCEPT ![r] = "done"]
                /\ unhandled' = [unhandled EXCEPT ![r] = "TypeError"]
                /\ locals' = [locals EXCEPT ![r] = bound]
                /\ UNCHANGED response
           ELSE IF ~is_list(samples)
           THEN /\ prediction_failed(r, payload,
                        REASON_NOT_A_LIST)
                /\ locals' = [locals EXCEPT ![r] =
                                 [bound EXCEPT !.predictions = List(<<>>), !.samples = samples]]
           ELSE /\ pc' = [pc EXCEPT ![r] = "for"]
                /\ locals' = [locals EXCEPT ![r] =
                                 [bound EXCEPT !.predictions = List(<<>>), !.samples = samples]]
                /\ UNCHANGED <<response, unhandled>>
    /\ UNCHANGED <<startpc, local_cache, body, calls, health_resp>>

\* lines 151-155: the for loop binds the next sample
NextSample(r) ==
    /\ pc[r] = "for"
    /\ locals[r].i < Len(locals[r].samples.v)
    /\ locals' = [locals EXCEPT ![r].sample = locals[r].samples.v[locals[r].i + 1]]
    /\ pc' = [pc EXCEPT ![r] = "pre"]
    /\ UNCHANGED <<startpc, local_cache, body, response, unhandled, calls, health_resp>>

\* lines 157-158: the pre-inference hook, when the handler has one, rebinds sample
PreInference(r) ==
    /\ pc[r] = "pre"
    /\ LET request_handler == local_cache.request_handler
           sample == locals[r].sample
       IN  IF request_handler # Null /\ has_function(request_handler, "pre_inference")
           THEN LET out == pre_inference(request_handler, sample, local_cache.input_metadata.v)
                IN  /\ calls' = [calls EXCEPT ![r] =
                                    Append(@, [fn |-> "pre_inference", i |-> locals[r].i,
                                               arg |-> sample,
                                               meta |-> local_cache.input_metadata])]
                    /\ IF out.ok
                       THEN /\ locals' = [locals EXCEPT ![r].sample = out.val]
                            /\ pc' = [pc EXCEPT ![r] = "convert"]
                            /\ UNCHANGED <<response, unhandled>>
                       ELSE except_Exception(r, sample, out)
           ELSE /\ pc' = [pc EXCEPT ![r] = "convert"]
                /\ UNCHANGED <<locals, response, unhandled, calls>>
    /\ UNCHANGED <<startpc, local_cache, body, health_resp>>

\* line 160: convert_to_onnx_input; the descriptors it coerces against are the
\* cache's own, so transform_to_numpy's writes to a shape list land in the cache
\* when .shape hands out the stored list, and in a temporary list otherwise
Convert(r) ==
    /\ pc[r] = "convert"
    /\ LET sample == locals[r].sample
           input_metadata == local_cache.input_metadata.v
           out == convert_to_onnx_input(sample, input_metadata)
       IN  /\ local_cache' =
                 IF local_cache.sess.shape_attr = "stored"
                 THEN [local_cache EXCEPT
                          !.input_metadata = List(convert_effect(sample, input_metadata))]
                 ELSE local_cache
           /\ calls' = [calls EXCEPT ![r] =
                           Append(@, [fn |-> "convert_to_onnx_input", i |-> locals[r].i,
                                      arg |-> sample, meta |-> List(input_metadata)])]
           /\ IF out.ok
              THEN /\ locals' = [locals EXCEPT ![r].inference_input = out.val]
                   /\ pc' = [pc EXCEPT ![r] = "run"]
                   /\ UNCHANGED <<response, unhandled>>
              ELSE except_Exception(r, sample, out)
    /\ UNCHANGED <<startpc, body, health_resp>>

\* a Run that calls the engine a second time when the first call raised
Run_retrying(r) ==
    /\ pc[r] = "run"
    /\ LET out == sess_run(local_cache.sess, locals[r].inference_input)
           call == [fn |-> "run", i |-> locals[r].i,
                    arg |-> locals[r].inference_input, meta |-> Null]
       IN  /\ calls' = [calls EXCEPT ![r] =
                           IF out.ok THEN Append(@, call) ELSE @ \o <<call, call>>]
           /\ IF out.ok
              THEN /\ locals' = [locals EXCEPT ![r].model_outputs = out.val]
                   /\ pc' = [pc EXCEPT ![r] = "marshal"]
                   /\ UNCHANGED <<response, unhandled>>
              ELSE except_Exception(r, locals[r].sample, out)
    /\ UNCHANGED <<startpc, local_cache, body, health_resp>>

\* line 161: sess.run
Run(r) ==
    /\ pc[r] = "run"
    /\ LET out == sess_run(local_cache.sess, locals[r].inference_input)
       IN  /\ calls' = [calls EXCEPT ![r] =
                           Append(@, [fn |-> "run", i |-> locals[r].i,
                                      arg |-> locals[r].inference_input,
                                      meta |-> Null])]
           /\ IF out.ok
              THEN /\ locals' = [locals EXCEPT ![r].model_outputs = out.val]
                   /\ pc' = [pc EXCEPT ![r] = "marshal"]
                   /\ UNCHANGED <<response, unhandled>>
              ELSE except_Exception(r, locals[r].sample, out)
    /\ UNCHANGED <<startpc, local_cache, body, health_resp>>

\* lines 162-167: the outputs are made JSON-compatible
Marshal(r) ==
    /\ pc[r] = "marshal"
    /\ locals' = [locals EXCEPT ![r].result = marshal(locals[r].model_outputs)]
    /\ pc' = [pc EXCEPT ![r] = "post"]
    /\ UNCHANGED <<startpc, local_cache, body, response, unhandled, calls, health_resp>>

\* PostInference with the hook never called
PostInference_skipped(r) ==
    /\ pc[r] = "post"
    /\ locals' = [locals EXCEPT
                     ![r].prediction = Obj(<<KV("prediction", locals[r].result)>>)]
    /\ pc' = [pc EXCEPT ![r] = "append"]
    /\ UNCHANGED <<startpc, local_cache, body, response, unhandled, calls, health_resp>>

\* lines 169-173: the post-inference hook, when the handler has one, rebinds
\* result; prediction = {"prediction": result}
PostInference(r) ==
    /\ pc[r] = "post"
    /\ LET request_handler == local_cache.request_handler
           result == locals[r].result
       IN  IF request_handler # Null /\ has_function(request_handler, "post_inference")
           THEN LET out == post_inference(request_handler, result, local_cache.output_metadata.v)
                IN  /\ calls' = [calls EXCEPT ![r] =
                                    Append(@, [fn |-> "post_inference", i |-> locals[r].i,
                                               arg |-> result,
                                               meta |-> local_cache.output_metadata])]
                    /\ IF out.ok
                       THEN /\ locals' = [locals EXCEPT
                                             ![r].result = out.val,
                                             ![r].prediction = Obj(<<KV("prediction", out.val)>>)]
                            /\ pc' = [pc EXCEPT ![r] = "append"]
                            /\ UNCHANGED <<response, unhandled>>
                       ELSE except_Exception(r, locals[r].sample, out)
           ELSE /\ locals' = [locals EXCEPT
                                 ![r].prediction = Obj(<<KV("prediction", result)>>)]
                /\ pc' = [pc EXCEPT ![r] = "append"]
                /\ UNCHANGED <<response, unhandled, calls>>
    /\ UNCHANGED <<startpc, local_cache, body, health_resp>>

\* AppendPrediction with the prediction put at the front of the list
AppendPrediction_at_front(r) ==
    /\ pc[r] = "append"
    /\ locals' = [locals EXCEPT
                     ![r].predictions = List(<<locals[r].prediction>> \o locals[r].predictions.v),
                     ![r].i = locals[r].i + 1]
    /\ pc' = [pc EXCEPT ![r] = "for"]
    /\ UNCHANGED <<startpc, local_cache, body, response, unhandled, calls, health_resp>>

\* line 187: predictions.append(prediction), and the loop moves on
AppendPrediction(r) ==
    /\ pc[r] = "append"
    /\ locals' = [locals EXCEPT
                     ![r].predictions = List(Append(locals[r].predictions.v, locals[r].prediction)),
                     ![r].i = locals[r].i + 1]
    /\ pc' = [pc EXCEPT ![r] = "for"]
    /\ UNCHANGED <<startpc, local_cache, body, response, unhandled, calls, health_resp>>

\* the response built inside the loop, as soon as one prediction is recorded
Aggregate_inside_loop(r) ==
    /\ pc[r] = "for"
    /\ locals[r].i = Len(locals[r].samples.v) \/ locals[r].i = 1
    /\ LET resp == Obj(<<KV("predictions", locals[r].predictions),
                         KV("resource_id", Str(local_cache.api.id))>>)
       IN  IF Serializable(resp)
           THEN /\ response' = [response EXCEPT ![r] = [status |-> 200, body |-> resp]]
                /\ UNCHANGED unhandled
           ELSE /\ unhandled' = [unhandled EXCEPT ![r] = "TypeError"]
                /\ UNCHANGED response
    /\ pc' = [pc EXCEPT ![r] = "done"]
    /\ UNCHANGED <<startpc, local_cache, body, locals, calls, health_resp>>

\* lines 189-192: the loop is exhausted and the response is built
Aggregate(r) ==
    /\ pc[r] = "for"
    /\ locals[r].i = Len(locals[r].samples.v)
    /\ LET resp == Obj(<<KV("predictions", locals[r].predictions),
                         KV("resource_id", Str(local_cache.api.id))>>)
       IN  IF Serializable(resp)
           THEN /\ response' = [response EXCEPT ![r] = [status |-> 200, body |-> resp]]
                /\ UNCHANGED unhandled
           ELSE /\ unhandled' = [unhandled EXCEPT ![r] = "TypeError"]
                /\ UNCHANGED response
    /\ pc' = [pc EXCEPT ![r] = "done"]
    /\ UNCHANGED <<startpc, local_cache, body, locals, calls, health_resp>>

\* predict has returned (or an exception has left it): the response goes to the
\* client, the frame and its locals are gone, and the worker is free again
Respond(r) ==
    /\ pc[r] = "done"
    /\ pc' = [pc EXCEPT ![r] = "idle"]
    /\ body' = [body EXCEPT ![r] = NoBody]
    /\ locals' = [locals EXCEPT ![r] = NoLocals]
    /\ response' = [response EXCEPT ![r] = NoResponse]
    /\ unhandled' = [unhandled EXCEPT ![r] = "none"]
    /\ calls' = [calls EXCEPT ![r] = <<>>]
    /\ UNCHANGED <<startpc, local_cache, health_resp>>

predict(r) ==
    \/ GetJson(r)
    \/ Validate(r)
    \/ NextSample(r)
    \/ PreInference(r)
    \/ Convert(r)
    \/ Run(r)
    \/ Marshal(r)
    \/ PostInference(r)
    \/ AppendPrediction(r)
    \/ Aggregate(r)
    \/ Respond(r)

-----------------------------------------------------------------------------
(* The server handling one request at a time: request slot 1 runs predict step *)
(* by step, interleaved with health                                          *)

Next ==
    \/ StartContext
    \/ StartSession
    \/ Serve
    \/ health
    \/ predict(1)

Spec == Init /\ [][Next]_vars

-----------------------------------------------------------------------------
(* The server handling two requests at a time: waitress runs predict on several
   threads over the one local_cache; the steps of the two requests interleave.
   The configurations and the bodies are a part of those of Spec *)

\* no handler, or the handler whose pre-inference hook reads the input's shape
ConcHandlers == {Null, [k |-> "module", pre |-> "reshape", post |-> "absent"]}

ConcBodies ==
    { [malformed |-> TRUE, json |-> Null],
      [malformed |-> FALSE, json |-> Obj(<<KV("samples", List(<<List(<<Num(1), Num(2)>>)>>))>>)],
      [malformed |-> FALSE, json |-> Obj(<<KV("samples", List(<<List(<<Num(-1), Num(2)>>)>>))>>)],
      [malformed |-> FALSE,
       json |-> Obj(<<KV("samples", List(<<List(<<Num(1), Num(2), Num(3), Num(4)>>)>>))>>)],
      [malformed |-> FALSE,
       json |-> Obj(<<KV("samples", List(<<List(<<Num(1), Num(2)>>),
                                           List(<<Num(1), Num(2), Num(3), Num(4)>>)>>))>>)] }

NextConc ==
    \/ StartContext /\ local_cache'.request_handler \in ConcHandlers
    \/ StartSession /\ local_cache'.sess.engine = "identity"
                    /\ local_cache'.sess.graph_inputs = SingleInput
    \/ Serve
    \/ health
    \/ \E r \in Reqs : predict(r) /\ body'[r] \in ConcBodies \cup {NoBody}

SpecConc == Init /\ [][NextConc]_vars

-----------------------------------------------------------------------------
(* Vocabulary of the properties *)

\* the descriptors and the handler the cache holds
InputMetadata == local_cache.input_metadata.v
OutputMetadata == local_cache.output_metadata.v
HasPre ==
    /\ local_cache.request_handler # Null
    /\ has_function(local_cache.request_handler, "pre_inference")
HasPost ==
    /\ local_cache.request_handler # Null
    /\ has_function(local_cache.request_handler, "post_inference")

\* the request's `samples` as the client sent them (for a payload that has a list)
ValidPayload(r) ==
    /\ ~body[r].malformed
    /\ is_dict(body[r].json)
    /\ HasKey(body[r].json, "samples")
    /\ is_list(Get(body[r].json, "samples"))
ClientSamples(r) == Get(body[r].json, "samples").v

\* request r has ended while sample locals[r].i was being processed
SampleFailed(r) ==
    /\ pc[r] = "done"
    /\ ValidPayload(r)
    /\ locals[r].bound
    /\ locals[r].i < Len(ClientSamples(r))

\* the four per-sample steps applied to one sample, one after the other
AfterPre(sample) ==
    IF HasPre
    THEN pre_inference(local_cache.request_handler, sample, InputMetadata)
    ELSE Return(sample)
AfterConvert(sample) ==
    IF AfterPre(sample).ok
    THEN convert_to_onnx_input(AfterPre(sample).val, InputMetadata)
    ELSE AfterPre(sample)
AfterRun(sample) ==
    IF AfterConvert(sample).ok
    THEN sess_run(local_cache.sess, AfterConvert(sample).val)
    ELSE AfterConvert(sample)
AfterPost(sample) ==
    IF ~AfterRun(sample).ok THEN AfterRun(sample)
    ELSE IF HasPost
    THEN post_inference(local_cache.request_handler, marshal(AfterRun(sample).val),
                        OutputMetadata)
    ELSE Return(marshal(AfterRun(sample).val))

-----------------------------------------------------------------------------
(* C1 - C10 *)

\* C1 (batch all-or-nothing): a request that ends while one of its samples is
\* being processed is answered 406 with a text body, never with a predictions list.
C1_AllOrNothing ==
    \A r \in Reqs :
        SampleFailed(r) =>
            /\ response[r].status = 406
            /\ response[r].body.k = "text"

\* C2 (full success): when every sample of the request passes all four steps,
\* the request ends with 200, one prediction per sample in the samples' order,
\* each the result computed from its sample, and the cache's API id.
C2_FullSuccess ==
    \A r \in Reqs :
        ( /\ pc[r] = "done"
          /\ ValidPayload(r)
          /\ \A j \in 1..Len(ClientSamples(r)) : AfterPost(ClientSamples(r)[j]).ok )
        => /\ unhandled[r] = "none"
           /\ response[r].status = 200
           /\ response[r].body.k = "obj"
           /\ Len(response[r].body.v) = 2
           /\ Get(response[r].body, "resource_id") = Str(local_cache.api.id)
           /\ LET predictions == Get(response[r].body, "predictions")
              IN  /\ predictions.k = "list"
                  /\ Len(predictions.v) = Len(ClientSamples(r))
                  /\ \A j \in 1..Len(ClientSamples(r)) :
                        predictions.v[j] =
                            Obj(<<KV("prediction", AfterPost(ClientSamples(r)[j]).val)>>)

\* a 200 response with two predictions that differ
C2_Witness ==
    \E r \in Reqs :
        /\ pc[r] = "done"
        /\ response[r].status = 200
        /\ Len(Get(response[r].body, "predictions").v) = 2
        /\ Get(response[r].body, "predictions").v[1] # Get(response[r].body, "predictions").v[2]

\* C3 (top-level validation): a decoded body that is no mapping, has no key
\* `samples`, or whose `samples` is no list is answered 406 and no hook or
\* engine call is made for it.
C3_TopLevelValidation ==
    \A r \in Reqs :
        (pc[r] = "done" /\ ~body[r].malformed /\ ~ValidPayload(r))
        => /\ response[r].status = 406
           /\ unhandled[r] = "none"
           /\ calls[r] = <<>>

\* C4 (error containment): once a request has entered the per-sample loop,
\* no exception leaves predict: it ends with a 200 or a 406 response.
C4_ErrorContainment ==
    \A r \in Reqs :
        (pc[r] = "done" /\ ValidPayload(r) /\ locals[r].bound)
        => /\ unhandled[r] = "none"
           /\ response[r].status \in {200, 406}

\* every descriptor's name is a key of the mapping, and the value under it coerces
CompleteMapping(sample) ==
    /\ is_dict(sample)
    /\ \A j \in 1..Len(InputMetadata) :
          /\ HasKey(sample, InputMetadata[j].name)
          /\ transform_to_numpy(Get(sample, InputMetadata[j].name), InputMetadata[j]).ok

\* C5 (multi-input dispatch): for a model with two or more inputs, dispatching
\* a complete mapping yields one entry per descriptor, the entry for a name
\* being the coercion of the value stored under that name.
C5_MultiInputDispatch ==
    [][\A r \in Reqs :
          ( /\ pc[r] = "convert"
            /\ pc'[r] # "convert"
            /\ Len(InputMetadata) >= 2
            /\ CompleteMapping(locals[r].sample) )
          => /\ pc'[r] = "run"
             /\ locals'[r].inference_input =
                   Obj([j \in 1..Len(InputMetadata) |->
                          KV(InputMetadata[j].name,
                             transform_to_numpy(Get(locals[r].sample, InputMetadata[j].name),
                                                InputMetadata[j]).val)])
      ]_vars

\* the integers of a whole sample, in row-major order
FlatInts(sample) ==
    IF sample.k = "nd" THEN sample.v
    ELSE [j \in 1..Len(Leaves(sample)) |-> LeafInt(Leaves(sample)[j])]

\* C6 (single-input dispatch of a bare sample): for a model with one input and
\* a sample that is no mapping, dispatch coerces the whole sample: it yields
\* the one-entry mapping from the input's name to the tensor made of all the
\* sample's elements, and fails exactly when that coercion fails.
C6_SingleInputBare ==
    [][\A r \in Reqs :
          ( /\ pc[r] = "convert"
            /\ pc'[r] # "convert"
            /\ Len(InputMetadata) = 1
            /\ ~is_dict(locals[r].sample) )
          => LET t == transform_to_numpy(locals[r].sample, InputMetadata[1])
             IN  IF t.ok
                 THEN /\ pc'[r] = "run"
                      /\ locals'[r].inference_input.k = "obj"
                      /\ Len(locals'[r].inference_input.v) = 1
                      /\ locals'[r].inference_input.v[1].key = InputMetadata[1].name
                      /\ locals'[r].inference_input.v[1].val = t.val
                      /\ t.val.v = FlatInts(locals[r].sample)
                 ELSE /\ pc'[r] = "done"
                      /\ locals'[r].e.k = "exc"
                      /\ locals'[r].e.msg = t.msg
      ]_vars

\* a bare sample has been dispatched against a single-input model
C6_Witness ==
    \E r \in Reqs :
        /\ pc[r] = "run"
        /\ Len(InputMetadata) = 1
        /\ ~is_dict(locals[r].sample)
        /\ Len(locals[r].inference_input.v) = 1

\* C7 (single-input dispatch of a mapping): for a model with one input, the
\* missing-field error is raised for a mapping sample only when the mapping
\* lacks the input's name; a mapping that has the key is coerced instead.
C7_SingleInputMapping ==
    \A r \in Reqs :
        ( /\ pc[r] = "done"
          /\ locals[r].bound
          /\ Len(InputMetadata) = 1
          /\ locals[r].e.k = "exc"
          /\ locals[r].e.msg = "sample should be a dict containing key: " \o InputMetadata[1].name )
        => ~HasKey(locals[r].sample, InputMetadata[1].name)

\* C8 (malformed body): a request whose body does not parse is answered 400
\* "Malformed JSON" at once: the cache entries are not read, no hook runs and
\* the engine is not invoked.
C8_MalformedBody ==
    \A r \in Reqs :
        body[r].malformed =>
            /\ pc[r] = "done"
            /\ response[r] = [status |-> 400, body |-> Text("Malformed JSON")]
            /\ unhandled[r] = "none"
            /\ ~locals[r].bound
            /\ calls[r] = <<>>

\* a malformed body has been answered
C8_Witness ==
    \E r \in Reqs : body[r].malformed /\ pc[r] = "done" /\ response[r].status = 400

\* C9 (failure echo): the 406 of a failed sample i carries the JSON text of
\* element i of the samples the client sent, then the error's message.
C9_FailureEcho ==
    \A r \in Reqs :
        (SampleFailed(r) /\ response[r].status = 406)
        => response[r].body =
              Text(prediction_failed_message(ClientSamples(r)[locals[r].i + 1],
                                             locals[r].e.msg))

\* the hook calls of request r for sample index i
HookCalls(r, fn, i) == {n \in 1..Len(calls[r]) : calls[r][n].fn = fn /\ calls[r][n].i = i}

\* a descriptor list with every shape resolved
Resolved(metas) == [j \in 1..Len(metas) |-> transform_to_numpy_effect(metas[j])]

\* C10 (optional hooks): a hook is called for a sample exactly when the handler
\* installed at startup provides it, with the client's sample and the input
\* descriptors (pre) or the marshalled outputs and the output descriptors
\* (post); without pre_inference the sample reaches dispatch unchanged, and
\* the prediction is post_inference's return value, or without it the
\* marshalled outputs.
C10_OptionalHooks ==
    \A r \in Reqs :
        /\ \A n \in 1..Len(calls[r]) :
              /\ calls[r][n].fn = "pre_inference" =>
                    /\ HasPre
                    /\ calls[r][n].arg = ClientSamples(r)[calls[r][n].i + 1]
                    /\ Resolved(calls[r][n].meta.v) = Resolved(InputMetadata)
              /\ calls[r][n].fn = "post_inference" =>
                    /\ HasPost
                    /\ calls[r][n].meta.v = OutputMetadata
        /\ pc[r] \in {"convert", "run", "marshal", "post", "append"} =>
              /\ Cardinality(HookCalls(r, "pre_inference", locals[r].i)) = (IF HasPre THEN 1 ELSE 0)
              /\ ~HasPre => locals[r].sample = ClientSamples(r)[locals[r].i + 1]
              /\ HasPre => locals[r].sample = AfterPre(ClientSamples(r)[locals[r].i + 1]).val
        /\ pc[r] \in {"convert", "run", "marshal", "post"} =>
              HookCalls(r, "post_inference", locals[r].i) = {}
        /\ pc[r] = "append" =>
              /\ Cardinality(HookCalls(r, "post_inference", locals[r].i)) = (IF HasPost THEN 1 ELSE 0)
              /\ \A n \in HookCalls(r, "post_inference", locals[r].i) :
                    calls[r][n].arg = marshal(locals[r].model_outputs)
              /\ locals[r].prediction =
                    Obj(<<KV("prediction",
                             IF HasPost
                             THEN post_inference(local_cache.request_handler,
                                                 marshal(locals[r].model_outputs),
                                                 OutputMetadata).val
                             ELSE marshal(locals[r].model_outputs))>>)

\* a sample has passed both hooks of a handler that provides them
C10_Witness ==
    \E r \in Reqs :
        /\ pc[r] = "append"
        /\ HasPre
        /\ HasPost
        /\ HookCalls(r, "pre_inference", locals[r].i) # {}
        /\ HookCalls(r, "post_inference", locals[r].i) # {}

-----------------------------------------------------------------------------
(* C11 - C20 *)

\* the answer of GET /healthz
HealthOk == [status |-> 200, body |-> Obj(<<KV("ok", Bool(TRUE))>>)]

\* C11 (health is unconditional): once the listener runs, health can answer in
\* every state, whatever the predict requests are doing or have done; every
\* answer it gives is 200 {"ok": true}, and answering leaves the cache and the
\* requests' state as they were.
C11_HealthUnconditional ==
    [][ /\ startpc = "serving" => ENABLED health
        /\ health_resp' # health_resp =>
              /\ health_resp' = HealthOk
              /\ UNCHANGED <<local_cache, reqvars>> ]_vars

\* health has answered while a request that failed (400, 406 or an escaped
\* exception) has not yet left
C11_Witness ==
    /\ health_resp = HealthOk
    /\ \E r \in Reqs : pc[r] = "done" /\ response[r].status # 200

\* the messages of the missing-field error for the descriptors of the cache
MissingFieldMessages ==
    {"sample should be a dict containing keys: " \o JoinNames(InputMetadata)}
        \cup {"sample should be a dict containing key: " \o InputMetadata[j].name :
                 j \in 1..Len(InputMetadata)}

\* C12 (multi-input dispatch rejects incomplete samples): for a model with two
\* or more inputs, dispatching a sample that is no mapping, or a mapping that
\* lacks a descriptor's name, raises the ValueError that names the expected
\* key(s), and coerces nothing (the descriptors are left as they were).
C12_MultiInputRejects ==
    [][\A r \in Reqs :
          ( /\ pc[r] = "convert"
            /\ pc'[r] # "convert"
            /\ Len(InputMetadata) >= 2
            /\ \/ ~is_dict(locals[r].sample)
               \/ \E j \in 1..Len(InputMetadata) :
                     ~HasKey(locals[r].sample, InputMetadata[j].name) )
          => /\ pc'[r] = "done"
             /\ locals'[r].e.exc = "ValueError"
             /\ locals'[r].e.msg \in MissingFieldMessages
             /\ local_cache'.input_metadata = local_cache.input_metadata
      ]_vars

\* C13 (coercion leaves the descriptors unchanged): whatever predict requests
\* have run, every input descriptor of the cache has the name, the type and the
\* shape, unknown dimensions included, that the model declared at startup.
C13_DescriptorsUnchanged ==
    local_cache.sess # Null =>
        local_cache.input_metadata = List(local_cache.sess.graph_inputs)

\* C14 (unknown dimensions resolve to 1): whenever dispatch for a one-input
\* model ends with a tensor, the tensor's shape is as long as the shape of the
\* descriptor it was coerced against, equals it at the known positions and is
\* 1 at the unknown ones.
C14_UnknownDimsAreOne ==
    [][\A r \in Reqs :
          ( /\ pc[r] = "convert"
            /\ pc'[r] = "run"
            /\ Len(InputMetadata) = 1 )
          => LET declared == InputMetadata[1].shape
                 tensor == locals'[r].inference_input.v[1].val
             IN  /\ tensor.k = "nd"
                 /\ Len(tensor.shape) = Len(declared)
                 /\ \A idx \in 1..Len(declared) :
                       tensor.shape[idx] =
                          IF declared[idx] = NoneDim THEN 1 ELSE declared[idx]
      ]_vars

\* a tensor of shape [1, 2] has been made against a descriptor of declared
\* shape [None, 2]
C14_Witness ==
    \E r \in Reqs :
        /\ pc[r] = "run"
        /\ Len(InputMetadata) = 1
        /\ InputMetadata[1].shape = <<NoneDim, 2>>
        /\ locals[r].inference_input.v[1].val.shape = <<1, 2>>

\* single-input dispatch hands a value to transform_to_numpy: the sample, or
\* what the sample stores under the input's name
Coerces(sample) ==
    ~is_dict(sample) \/ Get(sample, InputMetadata[1].name) # Null
CoercedValue(sample) ==
    IF is_dict(sample) THEN Get(sample, InputMetadata[1].name) ELSE sample

\* the number of elements of a value
ElementCount(value) == IF value.k = "nd" THEN Len(value.v) ELSE Len(Leaves(value))

\* np.array can build an array of the descriptor's dtype from the value
BuildsArray(value, input_metadata) ==
    value.k = "nd" \/ np_array(value, onnx_to_np[input_metadata.type]).ok

\* the coercion of the sample of request r in this step succeeds exactly when
\* the value's element count is the product of the resolved shape, and fails
\* with reshape's error otherwise
ShapeCompatible(r) ==
    LET value == CoercedValue(locals[r].sample)
        target == ResolvedShape(InputMetadata[1].shape)
    IN  IF ElementCount(value) = Prod(target)
        THEN /\ pc'[r] = "run"
             /\ locals'[r].inference_input.v[1].val.shape = target
        ELSE /\ pc'[r] = "done"
             /\ locals'[r].e.exc = "ValueError"
             /\ locals'[r].e.msg = "cannot reshape array of size "
                                      \o ToString(ElementCount(value)) \o " into shape ("
                                      \o ShapeItems(target) \o ")"

\* C15 as stated (shape compatibility, every value): coercion succeeds exactly
\* when the value's element count equals the product of the declared shape
\* with unknown dimensions set to 1, and fails with the shape-mismatch error
\* otherwise.
C15_ShapeCompatibilityEveryValue ==
    [][\A r \in Reqs :
          ( /\ pc[r] = "convert"
            /\ pc'[r] # "convert"
            /\ Len(InputMetadata) = 1
            /\ Coerces(locals[r].sample) )
          => ShapeCompatible(r)
      ]_vars

\* C15 amended (shape compatibility, values an array can be built from): for a
\* value that is an ndarray or that np.array converts to the declared dtype,
\* coercion succeeds exactly when the value's element count equals the product
\* of the declared shape with unknown dimensions set to 1, and fails with the
\* shape-mismatch error otherwise: 4 elements against [None, 2] fail and are
\* not reshaped to [2, 2].
C15_ShapeCompatibility ==
    [][\A r \in Reqs :
          ( /\ pc[r] = "convert"
            /\ pc'[r] # "convert"
            /\ Len(InputMetadata) = 1
            /\ Coerces(locals[r].sample)
            /\ BuildsArray(CoercedValue(locals[r].sample), InputMetadata[1]) )
          => ShapeCompatible(r)
      ]_vars

\* four elements were offered to a descriptor declared [None, 2], and coercion
\* failed with the shape-mismatch error
C15_Witness ==
    \E r \in Reqs :
        /\ pc[r] = "done"
        /\ Len(InputMetadata) = 1
        /\ local_cache.sess.graph_inputs[1].shape = <<NoneDim, 2>>
        /\ locals[r].sample.k \in {"list", "nd"}
        /\ ElementCount(locals[r].sample) = 4
        /\ locals[r].e # Null
        /\ locals[r].e.msg = "cannot reshape array of size 4 into shape (1,2)"

\* the steps of one sample, in the order predict takes them
Pipeline ==
    (IF HasPre THEN <<"pre_inference">> ELSE <<>>)
        \o <<"convert_to_onnx_input", "run">>
        \o (IF HasPost THEN <<"post_inference">> ELSE <<>>)

\* the names of the calls request r has made for sample index i, in call order
StepNames(r, i) ==
    LET own == SelectSeq(calls[r], LAMBDA c : c.i = i)
    IN  [n \in 1..Len(own) |-> own[n].fn]

IsPrefix(s, t) == Len(s) <= Len(t) /\ s = SubSeq(t, 1, Len(s))

\* C16 (pipeline ordering): the calls of a request are made sample by sample in
\* index order; the calls of one sample are pre hook, dispatch, engine run,
\* post hook in that order; every sample whose prediction is recorded has had
\* all its steps, the sample being processed has had a prefix of them, and no
\* later sample has had any; a 200 response exists only when every sample's
\* prediction is recorded.
C16_PipelineOrdering ==
    \A r \in Reqs :
        IF locals[r].predictions = Null
        THEN calls[r] = <<>> /\ response[r].status # 200
        ELSE LET recorded == Len(locals[r].predictions.v)
             IN  /\ locals[r].i = recorded
                 /\ \A n, m \in 1..Len(calls[r]) : n < m => calls[r][n].i <= calls[r][m].i
                 /\ \A n \in 1..Len(calls[r]) : calls[r][n].i <= recorded
                 /\ \A j \in 0..(recorded - 1) : StepNames(r, j) = Pipeline
                 /\ IsPrefix(StepNames(r, recorded), Pipeline)
                 /\ response[r].status = 200 => recorded = Len(locals[r].samples.v)

\* a request of two samples has been answered 200 by a server with both hooks:
\* eight calls were made
C16_Witness ==
    \E r \in Reqs :
        /\ pc[r] = "done"
        /\ response[r].status = 200
        /\ HasPre /\ HasPost
        /\ Len(locals[r].samples.v) = 2
        /\ Len(calls[r]) = 8

\* no hook, dispatch or engine call was made twice for the same sample
NoRepeatedCall(r) ==
    \A n, m \in 1..Len(calls[r]) :
        n < m => ~(calls[r][n].fn = calls[r][m].fn /\ calls[r][n].i = calls[r][m].i)

\* a step that raised ended the request: its call is the last one made, and no
\* call was made for a later sample
FailFast(r) ==
    locals[r].e # Null =>
        /\ pc[r] = "done"
        /\ response[r].status # 200
        /\ calls[r] # <<>>
        /\ calls[r][Len(calls[r])].i = locals[r].i
        /\ \A n \in 1..Len(calls[r]) : calls[r][n].i <= locals[r].i

\* C17 (fail-fast, no retries): each hook and the engine are called at most
\* once per sample; the first step that raises ends the request, with no call
\* for any later sample; and a request that has ended makes no further call.
C17_FailFastNoRetry ==
    [][\A r \in Reqs :
          /\ NoRepeatedCall(r)'
          /\ FailFast(r)'
          /\ pc[r] = "done" => (calls'[r] = calls[r] /\ pc'[r] = "done") \/ pc'[r] = "idle"
      ]_vars

\* the engine raised on the first of two samples: one engine call was made,
\* and none for the second sample
C17_Witness ==
    \E r \in Reqs :
        /\ pc[r] = "done"
        /\ locals[r].e # Null
        /\ locals[r].e.exc = "RuntimeError"
        /\ locals[r].i = 0
        /\ Len(locals[r].samples.v) = 2
        /\ Cardinality({n \in 1..Len(calls[r]) : calls[r][n].fn = "run"}) = 1

\* result is the JSON-compatible form of the engine's outputs: a list with one
\* element per output, in the outputs' order, an ndarray given as the nested
\* list of its shape holding its elements, any other output given as it is
MarshalledFrom(result, model_outputs) ==
    /\ result.k = "list"
    /\ Len(result.v) = Len(model_outputs.v)
    /\ \A j \in 1..Len(model_outputs.v) :
          IF model_outputs.v[j].k = "nd"
          THEN /\ result.v[j].k \in {"list", "num"}
               /\ NpShape(result.v[j]) = model_outputs.v[j].shape
               /\ FlatInts(result.v[j]) = model_outputs.v[j].v
          ELSE result.v[j] = model_outputs.v[j]

\* C18 (output marshalling): what predict hands to the post hook, or places
\* under "prediction" when there is no post hook, has one element per engine
\* output in the engine's order, with ndarrays turned into nested lists and
\* other outputs passed through; a single output stays wrapped in the list.
C18_OutputMarshalling ==
    \A r \in Reqs :
        /\ pc[r] = "post" => MarshalledFrom(locals[r].result, locals[r].model_outputs)
        /\ pc[r] = "append" =>
              IF HasPost
              THEN /\ calls[r][Len(calls[r])].fn = "post_inference"
                   /\ MarshalledFrom(calls[r][Len(calls[r])].arg, locals[r].model_outputs)
              ELSE MarshalledFrom(Get(locals[r].prediction, "prediction"),
                                  locals[r].model_outputs)

\* the outputs of a two-output model, an ndarray and a list of dicts, have been
\* handed to the post hook
C18_Witness ==
    \E r \in Reqs :
        /\ pc[r] = "append"
        /\ HasPost
        /\ Len(locals[r].model_outputs.v) = 2
        /\ locals[r].model_outputs.v[1].k = "nd"
        /\ locals[r].model_outputs.v[2].k = "list"

\* every entry predict reads is set, the handler too when the API names one
CacheReady ==
    /\ local_cache.api # Null
    /\ local_cache.sess # Null
    /\ local_cache.input_metadata # Null
    /\ local_cache.output_metadata # Null
    /\ local_cache.api.request_handler_impl_key => local_cache.request_handler # Null

\* this step leaves every entry of the cache bound to what it was bound to: the
\* same API, session, handler and output descriptors, and the same input
\* descriptors (their names, types, ranks and known dimensions; what becomes
\* of an unknown dimension inside a descriptor is C13's subject)
EntriesKept ==
    /\ local_cache'.ctx = local_cache.ctx
    /\ local_cache'.api = local_cache.api
    /\ local_cache'.sess = local_cache.sess
    /\ local_cache'.request_handler = local_cache.request_handler
    /\ local_cache'.output_metadata = local_cache.output_metadata
    /\ Resolved(local_cache'.input_metadata.v) = Resolved(local_cache.input_metadata.v)

\* C20 (startup precedes serving): when the listener starts, every cache entry
\* predict reads has been populated; no request is in progress before the
\* listener runs; and once it runs no step rebinds an entry, so every request
\* finds the model handle and the descriptor lists set, and the same hooks.
C20_StartupPrecedesServing ==
    [][ /\ startpc' = "serving" => CacheReady'
        /\ \A r \in Reqs : pc'[r] # "idle" => startpc' = "serving"
        /\ startpc = "serving" => startpc' = "serving" /\ EntriesKept
        /\ \A r \in Reqs : locals'[r].bound => CacheReady'
      ]_vars

\* a request has been answered 200 by a server whose handler was installed at
\* startup
C20_Witness ==
    \E r \in Reqs :
        /\ pc[r] = "done"
        /\ locals[r].bound
        /\ response[r].status = 200
        /\ local_cache.request_handler # Null

\* what a request ends with: the response returned, or the exception that left
\* predict
Outcome(resp, exc) == [response |-> resp, unhandled |-> exc]

\* prediction_failed(sample, reason) as the end of a request
FailedOutcome(sample, reason) ==
    IF Serializable(sample)
    THEN Outcome([status |-> 406, body |-> Text(prediction_failed_message(sample, reason))],
                 "none")
    ELSE Outcome(NoResponse, "TypeError")

RECURSIVE AloneFrom(_, _, _, _)
\* predict's loop from sample j on, run by one request with no other request
\* about, on the cache given; the cache is threaded through the samples as
\* Convert leaves it
AloneFrom(cache, samples, j, predictions) ==
    IF j > Len(samples)
    THEN LET resp == Obj(<<KV("predictions", List(predictions)),
                           KV("resource_id", Str(cache.api.id))>>)
         IN  IF Serializable(resp)
             THEN Outcome([status |-> 200, body |-> resp], "none")
             ELSE Outcome(NoResponse, "TypeError")
    ELSE LET h == cache.request_handler
             metas == cache.input_metadata.v
             pre == IF h # Null /\ has_function(h, "pre_inference")
                    THEN pre_inference(h, samples[j], metas)
                    ELSE Return(samples[j])
         IN  IF ~pre.ok THEN FailedOutcome(samples[j], pre.msg)
             ELSE
             LET sample == pre.val
                 input == convert_to_onnx_input(sample, metas)
                 after == IF cache.sess.shape_attr = "stored"
                          THEN [cache EXCEPT
                                   !.input_metadata = List(convert_effect(sample, metas))]
                          ELSE cache
             IN  IF ~input.ok THEN FailedOutcome(sample, input.msg)
                 ELSE
                 LET outputs == sess_run(cache.sess, input.val)
                 IN  IF ~outputs.ok THEN FailedOutcome(sample, outputs.msg)
                     ELSE
                     LET result == IF h # Null /\ has_function(h, "post_inference")
                                   THEN post_inference(h, marshal(outputs.val),
                                                       cache.output_metadata.v)
                                   ELSE Return(marshal(outputs.val))
                     IN  IF ~result.ok THEN FailedOutcome(sample, result.msg)
                         ELSE AloneFrom(after, samples, j + 1,
                                        Append(predictions,
                                               Obj(<<KV("prediction", result.val)>>)))

\* what predict ends with for body b when it runs alone on the cache given
Alone(cache, b) ==
    IF ~get_json(b).ok
    THEN Outcome([status |-> 400, body |-> Text("Malformed JSON")], "none")
    ELSE LET payload == get_json(b).val
             samples == Get(payload, "samples")
         IN  IF ~is_dict(payload) \/ ~HasKey(payload, "samples")
             THEN FailedOutcome(payload, REASON_NO_SAMPLES)
             ELSE IF samples.k \notin {"list", "obj", "str"}
             THEN Outcome(NoResponse, "TypeError")
             ELSE IF ~is_list(samples)
             THEN FailedOutcome(payload, REASON_NOT_A_LIST)
             ELSE AloneFrom(cache, samples.v, 1, <<>>)

\* the cache as start() populated it: the descriptors as the model declares them
StartupCache ==
    [local_cache EXCEPT !.input_metadata = List(local_cache.sess.graph_inputs)]

\* C19 (request isolation under concurrency): with the steps of two requests
\* interleaved over the shared cache, each request ends with the status and
\* the body it would have got running alone on the cache as populated at
\* startup.
C19_RequestIsolation ==
    \A r \in Reqs :
        pc[r] = "done" =>
            Outcome(response[r], unhandled[r]) = Alone(StartupCache, body[r])

====
